---- MODULE Spec2Model ----
(***************************************************************************)
(* Model of services/inc/logging.h: the logging macros (LOG_C, LOG_WRITE_C,*)
(* LOG_PRINT_C, LOG_PRINTF_C, LOG_DUMP_C, LOG_ENABLED_C, PANIC), the       *)
(* category macros (LOG_MODULE_CATEGORY, LOG_SOURCE_CATEGORY, LOG_CATEGORY,*)
(* LOG_THIS_CATEGORY) and the functions the header declares.  The bodies   *)
(* of the declared functions (log_message, log_write, log_printf, log_dump,*)
(* log_enabled, log_set_callbacks, log_init_attr, panic_) are not part of  *)
(* the header; they are modelled from the specification.                   *)
(***************************************************************************)
EXTENDS Integers, Sequences, FiniteSets, TLC

VARIABLES
    build,      \* compile-time configuration of the translation unit
    callbacks,  \* backend registration: msg, write, enabled, reserved
    clock,      \* milliseconds since startup
    pc,         \* the logging context: "idle" or "halted" (inside panic_)
    nCalls,     \* macro invocations issued so far
    nSets,      \* log_set_callbacks invocations so far
    history,    \* backend callback invocations and fatal-hook entries, in order
    last,       \* the latest macro invocation and the calls it made
    writer,     \* a second context executing log_set_callbacks store by store
    logger      \* a context executing one logging call read by read

vars == <<build, callbacks, clock, pc, nCalls, nSets, history, last, writer, logger>>

(***************************************************************************)
(* Bounds of the model                                                     *)
(***************************************************************************)
MaxCalls == 2
MaxSets == 1
MaxTime == 1

(***************************************************************************)
(* enum LogLevel                                                           *)
(***************************************************************************)
LOG_LEVEL_ALL == 1
LOG_LEVEL_TRACE == 1
LOG_LEVEL_INFO == 30
LOG_LEVEL_WARN == 40
LOG_LEVEL_ERROR == 50
LOG_LEVEL_PANIC == 60
LOG_LEVEL_NONE == 70

LogLevel == {LOG_LEVEL_ALL, LOG_LEVEL_TRACE, LOG_LEVEL_INFO, LOG_LEVEL_WARN,
             LOG_LEVEL_ERROR, LOG_LEVEL_PANIC, LOG_LEVEL_NONE}

NULL == "NULL"

\* A category tier that the translation unit does not declare.
Undeclared == "undeclared"

\* sizeof(LogAttributes): a compile-time value of the target, kept symbolic.
SizeofLogAttributes == "sizeof(LogAttributes)"

\* Lexical scopes of a translation unit: a function f with a nested block,
\* and a sibling function g.
Scopes == {"f", "f.block", "g"}

Enclosing(s) == IF s = "f.block" THEN "f" ELSE "file"

\* The name LOG_CATEGORY(...) gives scope s when it declares one.
ScopedName(s) == IF s = "f" THEN "app.f" ELSE IF s = "f.block" THEN "app.f.block" ELSE "app.g"

(***************************************************************************)
(* Input sets                                                              *)
(***************************************************************************)
CallLevels == {LOG_LEVEL_TRACE, LOG_LEVEL_WARN}
EnabledLevels == {LOG_LEVEL_TRACE, LOG_LEVEL_INFO, LOG_LEVEL_WARN}
Floors == {LOG_LEVEL_ALL, LOG_LEVEL_INFO, LOG_LEVEL_NONE}
ExplicitCategories == {"net.tcp"}
PanicCodes == {"HardFault", "AssertionFailure"}

\* Call sites: __FILE__, __LINE__, __PRETTY_FUNCTION__ and the enclosing scope.
SiteF == [file |-> "main.c", line |-> 10, function |-> "f", scope |-> "f"]
SiteFBlock == [file |-> "main.c", line |-> 14, function |-> "f", scope |-> "f.block"]
SiteG == [file |-> "main.c", line |-> 20, function |-> "g", scope |-> "g"]
Sites == {SiteF, SiteFBlock, SiteG}

\* Enabled predicates a backend may register (int-valued, as the callback type).
Predicates == {"P_warn", "P_net"}

Predicate(p, level, category) ==
    IF p = "P_warn" THEN (IF level >= LOG_LEVEL_WARN THEN 1 ELSE 0)
    ELSE (IF category = "net.tcp" THEN 2 ELSE 0)

Unset == [msg |-> NULL, write |-> NULL, enabled |-> NULL, reserved |-> NULL]

\* Registrations a backend may install with log_set_callbacks.
RegMsg == [msg |-> "msg_a", write |-> NULL, enabled |-> "P_warn", reserved |-> "ctx_a"]
RegWrite == [msg |-> NULL, write |-> "write_b", enabled |-> NULL, reserved |-> "ctx_b"]
RegFull == [msg |-> "msg_c", write |-> "write_c", enabled |-> "P_net", reserved |-> "ctx_c"]
Registrations == {RegMsg, RegWrite, RegFull}

(***************************************************************************)
(* Category macros                                                         *)
(***************************************************************************)
\* #ifndef LOG_MODULE_CATEGORY / #define LOG_MODULE_CATEGORY NULL
ModuleCategory ==
    IF build.LOG_MODULE_CATEGORY = Undeclared THEN NULL ELSE build.LOG_MODULE_CATEGORY

\* The declaration of _log_category (C) or struct _LogCategory (C++) that is
\* visible in scope s: the nearest enclosing LOG_CATEGORY, else the file-scope one.
RECURSIVE VisibleScoped(_)
VisibleScoped(s) ==
    IF s = "file" THEN Undeclared
    ELSE IF build.scoped[s] # Undeclared THEN build.scoped[s]
    ELSE VisibleScoped(Enclosing(s))

ThisCategoryC_SourceFirst(s) ==
    LET log_category == IF VisibleScoped(s) = Undeclared THEN NULL ELSE VisibleScoped(s)
    IN IF build.source # Undeclared THEN build.source
       ELSE IF log_category # NULL THEN log_category
       ELSE ModuleCategory

\* C: (_log_category ? _log_category :
\*       (_log_source_category ? _log_source_category() : LOG_MODULE_CATEGORY))
ThisCategoryC(s) ==
    LET log_category == IF VisibleScoped(s) = Undeclared THEN NULL ELSE VisibleScoped(s)
    IN IF log_category # NULL THEN log_category
       ELSE IF build.source # Undeclared THEN build.source
       ELSE ModuleCategory

\* C++: _LogCategory::name(), where _LogCategory is the scoped struct if one is
\* visible, else _LogCategoryWrapper<_LogGlobalCategory> (specialised by
\* LOG_SOURCE_CATEGORY, else returning LOG_MODULE_CATEGORY).
ThisCategoryCpp(s) ==
    IF VisibleScoped(s) # Undeclared THEN VisibleScoped(s)
    ELSE IF build.source # Undeclared THEN build.source
    ELSE ModuleCategory

LOG_THIS_CATEGORY(s) ==
    IF build.LOG_DISABLE THEN NULL
    ELSE IF build.cplusplus THEN ThisCategoryCpp(s)
    ELSE ThisCategoryC(s)

(***************************************************************************)
(* Attribute capture                                                       *)
(***************************************************************************)
LOG_SOURCE_INFO_Always(site) ==
    [file |-> site.file, line |-> site.line, function |-> site.function]

\* #ifdef LOG_INCLUDE_SOURCE_INFO: __FILE__, __LINE__, __PRETTY_FUNCTION__
\* #else: NULL, 0, NULL
LOG_SOURCE_INFO(site) ==
    IF build.LOG_INCLUDE_SOURCE_INFO
    THEN [file |-> site.file, line |-> site.line, function |-> site.function]
    ELSE [file |-> NULL, line |-> 0, function |-> NULL]

\* log_init_attr(&attr, NULL): fills in the timestamp.
log_init_attr(attr) == [attr EXCEPT !.time = clock]

\* LogAttributes _name = { sizeof(LogAttributes), 0, _LOG_SOURCE_INFO };
\* log_init_attr(&_name, NULL)
LOG_INIT_ATTR(site) ==
    log_init_attr([size |-> SizeofLogAttributes, flags |-> 0,
                   file |-> LOG_SOURCE_INFO(site).file,
                   line |-> LOG_SOURCE_INFO(site).line,
                   function |-> LOG_SOURCE_INFO(site).function,
                   time |-> 0])

(***************************************************************************)
(* Declared functions: each returns the backend invocations it makes       *)
(***************************************************************************)
Event(op, via, level, category, cb, attrs) ==
    [op |-> op, via |-> via, call |-> nCalls + 1, level |-> level,
     category |-> category, cb |-> cb, reserved |-> callbacks.reserved,
     attrs |-> attrs]

log_message_FallsBackToWrite(level, category, attr) ==
    IF callbacks.msg # NULL
    THEN <<Event("message", "log_message", level, category, callbacks.msg, <<attr>>)>>
    ELSE IF callbacks.write # NULL
    THEN <<Event("write", "log_message", level, category, callbacks.write, <<>>)>>
    ELSE <<>>

\* Forwards the rendered text to the message callback; a no-op when it is unset.
log_message(level, category, attr) ==
    IF callbacks.msg # NULL
    THEN <<Event("message", "log_message", level, category, callbacks.msg, <<attr>>)>>
    ELSE <<>>

WriteDispatch(via, level, category) ==
    IF callbacks.write # NULL
    THEN <<Event("write", via, level, category, callbacks.write, <<>>)>>
    ELSE <<>>

log_write(level, category) == WriteDispatch("log_write", level, category)

log_printf(level, category) == WriteDispatch("log_printf", level, category)

log_dump(level, category) == WriteDispatch("log_dump", level, category)

log_enabled(level, category) ==
    IF callbacks.enabled # NULL THEN Predicate(callbacks.enabled, level, category) ELSE 1

(***************************************************************************)
(* Wrapper macros                                                          *)
(***************************************************************************)
\* LOG_LEVEL_##_level >= LOG_COMPILE_TIME_LEVEL
LevelGuardReversed(level) == level <= build.LOG_COMPILE_TIME_LEVEL

LevelGuard(level) == level >= build.LOG_COMPILE_TIME_LEVEL

\* The macro body is compiled in (#ifndef LOG_DISABLE) and its guard passes.
Emits(level) == ~build.LOG_DISABLE /\ LevelGuard(level)

NoEffect == [events |-> <<>>, trace |-> <<>>, attrs |-> <<>>]

\* The calls a macro body makes: the function, then the callback it invoked.
Called(fn, events) == <<fn>> \o [i \in 1..Len(events) |-> events[i].op]

LOG_C_RuntimeFiltered(level, category, site) ==
    IF Emits(level) /\ log_enabled(level, category) # 0
    THEN LET attr == LOG_INIT_ATTR(site)
             events == log_message(level, category, attr)
         IN [events |-> events,
             trace |-> <<"log_init_attr">> \o Called("log_message", events),
             attrs |-> <<attr>>]
    ELSE NoEffect

LOG_C_NoInit(level, category, site) ==
    IF Emits(level)
    THEN LET attr == [size |-> SizeofLogAttributes, flags |-> 0,
                      file |-> LOG_SOURCE_INFO(site).file,
                      line |-> LOG_SOURCE_INFO(site).line,
                      function |-> LOG_SOURCE_INFO(site).function,
                      time |-> 0]
             events == log_message(level, category, attr)
         IN [events |-> events, trace |-> Called("log_message", events),
             attrs |-> <<attr>>]
    ELSE NoEffect

\* if (level >= LOG_COMPILE_TIME_LEVEL) { _LOG_INIT_ATTR(_attr); log_message(...); }
LOG_C_Body(level, category, site) ==
    IF Emits(level)
    THEN LET attr == LOG_INIT_ATTR(site)
             events == log_message(level, category, attr)
         IN [events |-> events,
             trace |-> <<"log_init_attr">> \o Called("log_message", events),
             attrs |-> <<attr>>]
    ELSE NoEffect

\* if (level >= LOG_COMPILE_TIME_LEVEL) { log_write / log_printf / log_dump (...); }
WriteBody(fn, events, level) ==
    IF Emits(level)
    THEN [events |-> events, trace |-> Called(fn, events), attrs |-> <<>>]
    ELSE NoEffect

LOG_WRITE_C_Body(level, category) ==
    WriteBody("log_write", log_write(level, category), level)

\* const char* const _s = _str; log_write(level, category, _s, strlen(_s), NULL)
LOG_PRINT_C_Body(level, category) ==
    WriteBody("log_write", log_write(level, category), level)

LOG_PRINTF_C_Body(level, category) ==
    WriteBody("log_printf", log_printf(level, category), level)

LOG_DUMP_C_Body(level, category) ==
    WriteBody("log_dump", log_dump(level, category), level)

Record(macro, level, category, scope, eff, result) ==
    [macro |-> macro, call |-> nCalls + 1, level |-> level, category |-> category,
     scope |-> scope, trace |-> eff.trace, attrs |-> eff.attrs, result |-> result,
     cbs |-> callbacks, at |-> clock, code |-> NULL]

StatementTwice(macro, level, category, scope, eff) ==
    /\ pc = "idle"
    /\ nCalls < MaxCalls
    /\ history' = history \o eff.events \o eff.events
    /\ nCalls' = nCalls + 1
    /\ last' = Record(macro, level, category, scope, eff, -1)
    /\ UNCHANGED <<build, callbacks, clock, pc, nSets, writer, logger>>

\* A macro invocation is one statement, do { ... } while (0), of the calling
\* context: it runs to completion, every callback it invokes included, before
\* the context's next statement.
Statement(macro, level, category, scope, eff) ==
    /\ pc = "idle"
    /\ nCalls < MaxCalls
    /\ history' = history \o eff.events
    /\ nCalls' = nCalls + 1
    /\ last' = Record(macro, level, category, scope, eff, -1)
    /\ UNCHANGED <<build, callbacks, clock, pc, nSets, writer, logger>>

LOG_C(level, category, site) ==
    Statement("LOG_C", level, category, site.scope, LOG_C_Body(level, category, site))

LOG_WRITE_C(level, category, site) ==
    Statement("LOG_WRITE_C", level, category, site.scope, LOG_WRITE_C_Body(level, category))

LOG_PRINT_C(level, category, site) ==
    Statement("LOG_PRINT_C", level, category, site.scope, LOG_PRINT_C_Body(level, category))

LOG_PRINTF_C(level, category, site) ==
    Statement("LOG_PRINTF_C", level, category, site.scope, LOG_PRINTF_C_Body(level, category))

LOG_DUMP_C(level, category, site) ==
    Statement("LOG_DUMP_C", level, category, site.scope, LOG_DUMP_C_Body(level, category))

\* LOG(_level, ...) is LOG_C(_level, LOG_THIS_CATEGORY(), ...)
LOG(level, site) ==
    Statement("LOG", level, LOG_THIS_CATEGORY(site.scope), site.scope,
              LOG_C_Body(level, LOG_THIS_CATEGORY(site.scope), site))

\* The low-level use the header documents:
\* log_printf(LOG_LEVEL_INFO, LOG_THIS_CATEGORY(), NULL, "Hello")
log_printf_this(level, site) ==
    Statement("log_printf", level, LOG_THIS_CATEGORY(site.scope), site.scope,
              [events |-> log_printf(level, LOG_THIS_CATEGORY(site.scope)),
               trace |-> Called("log_printf", log_printf(level, LOG_THIS_CATEGORY(site.scope))),
               attrs |-> <<>>])

(***************************************************************************)
(* LOG_ENABLED_C                                                           *)
(***************************************************************************)
EnabledEvents(level, category) ==
    IF callbacks.enabled # NULL
    THEN <<Event("enabled", "log_enabled", level, category, callbacks.enabled, <<>>)>>
    ELSE <<>>

LOG_ENABLED_C_Eager(level, category) ==
    IF build.LOG_DISABLE THEN [eff |-> NoEffect, result |-> 0]
    ELSE [eff |-> [events |-> EnabledEvents(level, category),
                   trace |-> Called("log_enabled", EnabledEvents(level, category)),
                   attrs |-> <<>>],
          result |-> IF log_enabled(level, category) # 0 /\ LevelGuard(level) THEN 1 ELSE 0]

\* (LOG_LEVEL_##_level >= LOG_COMPILE_TIME_LEVEL && log_enabled(level, category, NULL)),
\* or (0) under LOG_DISABLE
LOG_ENABLED_C_Value(level, category) ==
    IF build.LOG_DISABLE THEN [eff |-> NoEffect, result |-> 0]
    ELSE IF ~LevelGuard(level) THEN [eff |-> NoEffect, result |-> 0]
    ELSE [eff |-> [events |-> EnabledEvents(level, category),
                   trace |-> Called("log_enabled", EnabledEvents(level, category)),
                   attrs |-> <<>>],
          result |-> IF log_enabled(level, category) # 0 THEN 1 ELSE 0]

LOG_ENABLED_C(level, category, site) ==
    /\ pc = "idle"
    /\ nCalls < MaxCalls
    /\ history' = history \o LOG_ENABLED_C_Value(level, category).eff.events
    /\ nCalls' = nCalls + 1
    /\ last' = Record("LOG_ENABLED_C", level, category, site.scope,
                      LOG_ENABLED_C_Value(level, category).eff,
                      LOG_ENABLED_C_Value(level, category).result)
    /\ UNCHANGED <<build, callbacks, clock, pc, nSets, writer, logger>>

(***************************************************************************)
(* PANIC                                                                   *)
(***************************************************************************)
\* panic_(_code, NULL, HAL_Delay_Microseconds): entered, never left.
panic_(code) ==
    [op |-> "panic_", via |-> "PANIC", call |-> nCalls + 1, level |-> LOG_LEVEL_PANIC,
     category |-> NULL, cb |-> code, reserved |-> NULL, attrs |-> <<>>]

PANIC_Body(site) == LOG_C_Body(LOG_LEVEL_PANIC, LOG_THIS_CATEGORY(site.scope), site)

PANIC_HookInsideGuard(code, site) ==
    /\ pc = "idle"
    /\ nCalls < MaxCalls
    /\ history' = history \o PANIC_Body(site).events
                     \o (IF Emits(LOG_LEVEL_PANIC) THEN <<panic_(code)>> ELSE <<>>)
    /\ nCalls' = nCalls + 1
    /\ last' = [Record("PANIC", LOG_LEVEL_PANIC, LOG_THIS_CATEGORY(site.scope), site.scope,
                       [PANIC_Body(site) EXCEPT
                           !.trace = @ \o (IF Emits(LOG_LEVEL_PANIC) THEN <<"panic_">> ELSE <<>>)],
                       -1) EXCEPT !.code = code]
    /\ pc' = IF Emits(LOG_LEVEL_PANIC) THEN "halted" ELSE "idle"
    /\ UNCHANGED <<build, callbacks, clock, nSets, writer, logger>>

\* do { LOG(PANIC, _fmt, ...); panic_(_code, NULL, HAL_Delay_Microseconds); } while (0)
PANIC(code, site) ==
    /\ pc = "idle"
    /\ nCalls < MaxCalls
    /\ history' = history \o PANIC_Body(site).events \o <<panic_(code)>>
    /\ nCalls' = nCalls + 1
    /\ last' = [Record("PANIC", LOG_LEVEL_PANIC, LOG_THIS_CATEGORY(site.scope), site.scope,
                       [PANIC_Body(site) EXCEPT !.trace = @ \o <<"panic_">>], -1)
                 EXCEPT !.code = code]
    /\ pc' = "halted"
    /\ UNCHANGED <<build, callbacks, clock, nSets, writer, logger>>

(***************************************************************************)
(* Backend registry                                                        *)
(***************************************************************************)
\* log_set_callbacks as seen from the calling context: when it returns, all
\* four values are replaced.
log_set_callbacks(log_msg, log_wr, log_en, reserved) ==
    /\ pc = "idle"
    /\ nSets < MaxSets
    /\ writer.pc = "idle"
    /\ callbacks' = [msg |-> log_msg, write |-> log_wr, enabled |-> log_en,
                     reserved |-> reserved]
    /\ nSets' = nSets + 1
    /\ UNCHANGED <<build, clock, pc, nCalls, history, last, writer, logger>>

\* The millisecond clock advances on its own.
Tick ==
    /\ clock < MaxTime
    /\ clock' = clock + 1
    /\ UNCHANGED <<build, callbacks, pc, nCalls, nSets, history, last, writer, logger>>

(***************************************************************************)
(* Initial states                                                          *)
(***************************************************************************)
NoCall == [macro |-> "none", call |-> 0, level |-> 0, category |-> NULL,
           scope |-> "file", trace |-> <<>>, attrs |-> <<>>, result |-> -1,
           cbs |-> Unset, at |-> 0, code |-> NULL]

WriterIdle == [pc |-> "idle", new |-> Unset, todo |-> {}]

LoggerIdle == [pc |-> "idle", fn |-> NULL, cb |-> NULL, clean |-> TRUE]

Startup ==
    /\ callbacks = Unset
    /\ clock = 0
    /\ pc = "idle"
    /\ nCalls = 0
    /\ nSets = 0
    /\ history = <<>>
    /\ last = NoCall
    /\ writer = WriterIdle
    /\ logger = LoggerIdle

\* One translation unit with a scoped category in f, built with any floor,
\* with or without source info, with or without LOG_DISABLE.
Init ==
    /\ build \in [LOG_DISABLE : BOOLEAN,
                  LOG_COMPILE_TIME_LEVEL : Floors,
                  LOG_INCLUDE_SOURCE_INFO : BOOLEAN,
                  cplusplus : {FALSE},
                  LOG_MODULE_CATEGORY : {"app"},
                  source : {Undeclared},
                  scoped : {[s \in Scopes |-> IF s = "f" THEN ScopedName(s) ELSE Undeclared]}]
    /\ Startup

CategoryArgs(site) == ExplicitCategories \cup {LOG_THIS_CATEGORY(site.scope)}

Next ==
    \/ \E l \in CallLevels : \E c \in CategoryArgs(SiteF) : LOG_C(l, c, SiteF)
    \/ \E l \in CallLevels : \E c \in CategoryArgs(SiteF) : LOG_WRITE_C(l, c, SiteF)
    \/ \E l \in CallLevels : \E c \in CategoryArgs(SiteF) : LOG_PRINT_C(l, c, SiteF)
    \/ \E l \in CallLevels : \E c \in CategoryArgs(SiteF) : LOG_PRINTF_C(l, c, SiteF)
    \/ \E l \in CallLevels : \E c \in CategoryArgs(SiteF) : LOG_DUMP_C(l, c, SiteF)
    \/ \E code \in PanicCodes : PANIC(code, SiteF)
    \/ \E g \in Registrations : log_set_callbacks(g.msg, g.write, g.enabled, g.reserved)
    \/ Tick

Spec == Init /\ [][Next]_vars

(***************************************************************************)
(* log_set_callbacks and a logging call in two execution contexts          *)
(***************************************************************************)
RegistryFields == {"msg", "write", "enabled", "reserved"}

\* log_set_callbacks is entered by the writer context.
SetBegin(reg) ==
    /\ writer.pc = "idle"
    /\ nSets < MaxSets
    /\ writer' = [pc |-> "storing", new |-> reg, todo |-> RegistryFields]
    /\ nSets' = nSets + 1
    /\ logger' = IF logger.pc = "idle" THEN logger ELSE [logger EXCEPT !.clean = FALSE]
    /\ UNCHANGED <<build, callbacks, clock, pc, nCalls, history, last>>

SetStore_DropsReserved(f) ==
    /\ writer.pc = "storing"
    /\ f \in writer.todo
    /\ callbacks' = IF f = "reserved" THEN callbacks
                    ELSE [callbacks EXCEPT ![f] = writer.new[f]]
    /\ writer' = [writer EXCEPT !.todo = @ \ {f},
                                !.pc = IF writer.todo = {f} THEN "idle" ELSE "storing"]
    /\ UNCHANGED <<build, clock, pc, nCalls, nSets, history, last, logger>>

\* One of the four unguarded stores of log_set_callbacks; the stores are plain
\* writes to shared variables, visible to other contexts one at a time and in
\* no fixed order.
SetStore(f) ==
    /\ writer.pc = "storing"
    /\ f \in writer.todo
    /\ callbacks' = [callbacks EXCEPT ![f] = writer.new[f]]
    /\ writer' = [writer EXCEPT !.todo = @ \ {f},
                                !.pc = IF writer.todo = {f} THEN "idle" ELSE "storing"]
    /\ UNCHANGED <<build, clock, pc, nCalls, nSets, history, last, logger>>

\* A logging call (log_message or log_write) in the logger context reads its
\* callback reference.
LogLoad(fn) ==
    /\ logger.pc = "idle"
    /\ nCalls < MaxCalls
    /\ logger' = [pc |-> "loaded", fn |-> fn,
                  cb |-> callbacks[IF fn = "log_message" THEN "msg" ELSE "write"],
                  clean |-> writer.pc = "idle"]
    /\ nCalls' = nCalls + 1
    /\ UNCHANGED <<build, callbacks, clock, pc, nSets, history, last, writer>>

\* ... and then invokes it with the shared context it reads at that moment.
LogInvoke ==
    /\ logger.pc = "loaded"
    /\ history' = IF logger.cb = NULL THEN history
                  ELSE Append(history,
                         [op |-> IF logger.fn = "log_message" THEN "message" ELSE "write",
                          via |-> logger.fn, call |-> nCalls, cb |-> logger.cb,
                          reserved |-> callbacks.reserved, clean |-> logger.clean])
    /\ logger' = LoggerIdle
    /\ UNCHANGED <<build, callbacks, clock, pc, nCalls, nSets, last, writer>>

(***************************************************************************)
(* Specifications                                                          *)
(***************************************************************************)
DefaultBuild ==
    [LOG_DISABLE |-> FALSE, LOG_COMPILE_TIME_LEVEL |-> LOG_LEVEL_ALL,
     LOG_INCLUDE_SOURCE_INFO |-> FALSE, cplusplus |-> FALSE,
     LOG_MODULE_CATEGORY |-> "app", source |-> Undeclared,
     scoped |-> [s \in Scopes |-> IF s = "f" THEN ScopedName(s) ELSE Undeclared]]

\* LOG_ENABLED_C under every floor, with and without LOG_DISABLE.
InitEnabled ==
    /\ build \in {[DefaultBuild EXCEPT !.LOG_DISABLE = d, !.LOG_COMPILE_TIME_LEVEL = f] :
                     d \in BOOLEAN, f \in Floors}
    /\ Startup

NextEnabled ==
    \/ \E l \in EnabledLevels : \E c \in CategoryArgs(SiteF) : LOG_ENABLED_C(l, c, SiteF)
    \/ \E g \in Registrations : log_set_callbacks(g.msg, g.write, g.enabled, g.reserved)

SpecEnabled == InitEnabled /\ [][NextEnabled]_vars

\* Every combination of declared and undeclared category tiers, in C and C++.
ScopedChoices ==
    {sc \in [Scopes -> {Undeclared} \cup {ScopedName(s) : s \in Scopes}] :
        \A s \in Scopes : sc[s] \in {Undeclared, ScopedName(s)}}

InitCategory ==
    /\ build \in {[DefaultBuild EXCEPT !.LOG_DISABLE = d, !.cplusplus = cpp,
                                       !.LOG_MODULE_CATEGORY = m, !.source = src,
                                       !.scoped = sc] :
                     d \in BOOLEAN, cpp \in BOOLEAN, m \in {Undeclared, "app"},
                     src \in {Undeclared, "app.src"}, sc \in ScopedChoices}
    /\ Startup

NextCategory ==
    \/ \E site \in Sites : log_printf_this(LOG_LEVEL_INFO, site)
    \/ \E site \in Sites : LOG(LOG_LEVEL_INFO, site)
    \/ log_set_callbacks(RegFull.msg, RegFull.write, RegFull.enabled, RegFull.reserved)

SpecCategory == InitCategory /\ [][NextCategory]_vars

InitConcurrent ==
    /\ build = DefaultBuild
    /\ Startup

NextConcurrent ==
    \/ \E g \in Registrations : SetBegin(g)
    \/ \E f \in RegistryFields : SetStore(f)
    \/ \E fn \in {"log_message", "log_write"} : LogLoad(fn)
    \/ LogInvoke

SpecConcurrent == InitConcurrent /\ [][NextConcurrent]_vars

(***************************************************************************)
(* Properties of the emission macros (specification Spec)                  *)
(***************************************************************************)
EmissionMacros == {"LOG_C", "LOG", "LOG_WRITE_C", "LOG_PRINT_C", "LOG_PRINTF_C", "LOG_DUMP_C"}
MessageMacros == {"LOG_C", "LOG"}
WriteMacros == {"LOG_WRITE_C", "LOG_PRINT_C", "LOG_PRINTF_C", "LOG_DUMP_C"}

Elems(seq) == {seq[i] : i \in 1..Len(seq)}

IsBackend(e) == e.op \in {"message", "write", "enabled"}

BackendEvents(h) == SelectSeq(h, IsBackend)

EventsOf(n) == SelectSeq(history, LAMBDA e : e.call = n)

\* C1: an emission macro invoked at a level below LOG_COMPILE_TIME_LEVEL invokes
\* no backend callback and builds no LogAttributes record (log_init_attr is not
\* called), whatever callbacks are registered.
C1_BelowFloorSilent ==
    /\ \A i \in 1..Len(history) :
          IsBackend(history[i]) => history[i].level >= build.LOG_COMPILE_TIME_LEVEL
    /\ (last.macro \in EmissionMacros /\ last.level < build.LOG_COMPILE_TIME_LEVEL)
          => /\ last.trace = <<>>
             /\ last.attrs = <<>>
             /\ EventsOf(last.call) = <<>>

C1_Witness ==
    /\ last.macro = "LOG_C"
    /\ ~build.LOG_DISABLE
    /\ last.level = LOG_LEVEL_TRACE
    /\ build.LOG_COMPILE_TIME_LEVEL = LOG_LEVEL_INFO
    /\ last.cbs.msg # NULL
    /\ Len(history) = 1
    /\ history[1].level = LOG_LEVEL_WARN

\* C4 (as stated): every execution of PANIC first logs the message at PANIC
\* level (calls log_message) and then calls panic_, in every configuration.
C4_PanicAlwaysLogsFirst ==
    last.macro = "PANIC"
        => /\ "log_message" \in Elems(last.trace)
           /\ last.trace[Len(last.trace)] = "panic_"
           /\ pc = "halted"

\* C4 (amended): every execution of PANIC calls panic_ with the caller's code
\* and never continues past it; the message is logged first (log_init_attr,
\* log_message, then the hook) exactly when LOG_DISABLE is not defined and
\* LOG_LEVEL_PANIC passes the compile-time floor, and otherwise panic_ is the
\* only call made.
C4_PanicReachesHook ==
    /\ last.macro = "PANIC"
          => /\ pc = "halted"
             /\ history # <<>>
             /\ history[Len(history)].op = "panic_"
             /\ history[Len(history)].call = last.call
             /\ history[Len(history)].cb = last.code
             /\ last.code \in PanicCodes
             /\ IF ~build.LOG_DISABLE /\ LOG_LEVEL_PANIC >= build.LOG_COMPILE_TIME_LEVEL
                THEN /\ Len(last.trace) >= 3
                     /\ last.trace[1] = "log_init_attr"
                     /\ last.trace[2] = "log_message"
                     /\ last.trace[Len(last.trace)] = "panic_"
                     /\ (last.cbs.msg # NULL
                            => /\ Len(history) >= 2
                               /\ history[Len(history) - 1].op = "message"
                               /\ history[Len(history) - 1].level = LOG_LEVEL_PANIC
                               /\ history[Len(history) - 1].call = last.call)
                ELSE last.trace = <<"panic_">>
    /\ pc = "halted"
          => /\ last.macro = "PANIC"
             /\ last.call = nCalls
             /\ history[Len(history)].op = "panic_"
             /\ Cardinality({i \in 1..Len(history) : history[i].op = "panic_"}) = 1
    /\ (\E i \in 1..Len(history) : history[i].op = "panic_") => pc = "halted"

C4_Witness ==
    /\ last.macro = "PANIC"
    /\ pc = "halted"
    /\ last.trace = <<"log_init_attr", "log_message", "message", "panic_">>
    /\ Len(history) = 3

C5_State ==
    /\ \A i \in 1..Len(history) :
          LET e == history[i] IN
          /\ e.via = "log_message" => (e.op = "message" /\ e.cb \in {"msg_a", "msg_c"})
          /\ e.via \in {"log_write", "log_printf", "log_dump"}
                => (e.op = "write" /\ e.cb \in {"write_b", "write_c"})
    /\ last.macro \in MessageMacros /\ last.cbs.msg = NULL => EventsOf(last.call) = <<>>
    /\ last.macro \in WriteMacros /\ last.cbs.write = NULL => EventsOf(last.call) = <<>>
    /\ \A i \in 1..Len(EventsOf(last.call)) :
          IsBackend(EventsOf(last.call)[i])
             => EventsOf(last.call)[i].cb = last.cbs[IF EventsOf(last.call)[i].op = "message"
                                                    THEN "msg" ELSE "write"]

C5_Step ==
    /\ callbacks = Unset => BackendEvents(history') = BackendEvents(history)
    /\ callbacks' # callbacks => history' = history

\* C5: log_message invokes only the message callback and does nothing when it
\* is unset; log_write, log_printf and log_dump invoke only the write callback
\* and do nothing when it is unset; with no callbacks registered no emission
\* invokes a callback, and registering a backend later delivers nothing.
C5_DispatchOwnCallbackOnly == [](C5_State) /\ [][C5_Step]_vars

C5_Witness ==
    /\ last.macro = "LOG_C"
    /\ last.cbs = Unset
    /\ ~build.LOG_DISABLE
    /\ last.level >= build.LOG_COMPILE_TIME_LEVEL
    /\ nCalls = MaxCalls
    /\ callbacks.msg # NULL
    /\ history = <<>>

\* C7: in one execution context the backend callbacks are invoked in the order
\* the calls were issued, each call at most once, each completed before the
\* next call is issued.
C7_DispatchInIssueOrder ==
    /\ \A i, j \in 1..Len(BackendEvents(history)) :
          i < j => BackendEvents(history)[i].call < BackendEvents(history)[j].call
    /\ \A i \in 1..Len(history) : history[i].call \in 1..nCalls
    /\ (last.macro \in EmissionMacros /\ last.trace # <<>>
          /\ last.cbs[IF last.macro \in MessageMacros THEN "msg" ELSE "write"] # NULL)
          => /\ Len(EventsOf(last.call)) = 1
             /\ history[Len(history)].call = last.call
             /\ history[Len(history)].level = last.level
             /\ history[Len(history)].category = last.category

C7_Witness ==
    /\ Len(history) = 2
    /\ history[1].op = "write" /\ history[1].call = 1
    /\ history[2].op = "message" /\ history[2].call = 2
    /\ last.macro = "LOG_C"

\* C8: every LogAttributes record handed to the message callback has
\* size = sizeof(LogAttributes) and flags = 0; without LOG_INCLUDE_SOURCE_INFO
\* its file is null, its line 0 and its function null, and with it they are
\* the call site's.
C8_AttributesWellFormed ==
    \A i \in 1..Len(history) :
       history[i].op = "message"
          => /\ Len(history[i].attrs) = 1
             /\ history[i].attrs[1].size = SizeofLogAttributes
             /\ history[i].attrs[1].flags = 0
             /\ IF build.LOG_INCLUDE_SOURCE_INFO
                THEN /\ history[i].attrs[1].file = SiteF.file
                     /\ history[i].attrs[1].line = SiteF.line
                     /\ history[i].attrs[1].function = SiteF.function
                ELSE /\ history[i].attrs[1].file = NULL
                     /\ history[i].attrs[1].line = 0
                     /\ history[i].attrs[1].function = NULL

C8_Witness ==
    /\ ~build.LOG_INCLUDE_SOURCE_INFO
    /\ Len(history) = 2
    /\ history[1].op = "message"
    /\ history[2].op = "message"
    /\ history[2].attrs[1].size = SizeofLogAttributes
    /\ history[2].attrs[1].file = NULL

\* C9 (as stated): a LogAttributes record is built only if the level passes the
\* compile-time floor and the run-time enabled predicate accepts (level, category).
C9_AttrOnlyIfEnabledAtBothStages ==
    (last.macro = "LOG_C" /\ last.attrs # <<>>)
        => /\ last.level >= build.LOG_COMPILE_TIME_LEVEL
           /\ (last.cbs.enabled = NULL
                  \/ Predicate(last.cbs.enabled, last.level, last.category) # 0)

\* C9 (amended): LOG / LOG_C build a LogAttributes record (and call
\* log_init_attr) exactly when LOG_DISABLE is not defined and the level passes
\* the compile-time floor; no emission macro consults the run-time enabled
\* predicate, so the record is built and log_message called even when the
\* predicate rejects (level, category).
C9_AttrIffCompileTimeEnabled ==
    /\ last.macro \in MessageMacros
          => /\ (last.attrs # <<>>)
                   <=> (~build.LOG_DISABLE /\ last.level >= build.LOG_COMPILE_TIME_LEVEL)
             /\ (last.attrs # <<>>)
                   <=> (Len(last.trace) >= 2 /\ last.trace[1] = "log_init_attr"
                           /\ last.trace[2] = "log_message")
    /\ last.macro \in EmissionMacros \cup {"PANIC"}
          => /\ "log_enabled" \notin Elems(last.trace)
             /\ "enabled" \notin Elems(last.trace)

C9_Witness ==
    /\ last.macro = "LOG_C"
    /\ last.attrs # <<>>
    /\ last.cbs.enabled = "P_warn"
    /\ Predicate(last.cbs.enabled, last.level, last.category) = 0
    /\ last.trace = <<"log_init_attr", "log_message", "message">>

\* C10 (as stated): with LOG_INCLUDE_SOURCE_INFO, log_init_attr is called
\* immediately before every dispatch, on the message path and on the write path.
C10_InitBeforeEveryDispatch ==
    (build.LOG_INCLUDE_SOURCE_INFO /\ last.macro \in EmissionMacros
        /\ ("message" \in Elems(last.trace) \/ "write" \in Elems(last.trace)))
        => last.trace[1] = "log_init_attr"

\* C10 (amended): on the message path (LOG, LOG_C, and the LOG inside PANIC)
\* log_init_attr is called immediately before log_message, whether or not
\* LOG_INCLUDE_SOURCE_INFO is defined, and the record carries the clock value
\* of the call; the write path (LOG_WRITE, LOG_PRINT, LOG_PRINTF, LOG_DUMP)
\* never calls log_init_attr and builds no record.
C10_InitOnMessagePathOnly ==
    /\ (last.macro \in MessageMacros /\ last.trace # <<>>)
          => /\ Len(last.trace) >= 2
             /\ last.trace[1] = "log_init_attr"
             /\ last.trace[2] = "log_message"
             /\ Len(last.attrs) = 1
             /\ last.attrs[1].time = last.at
    /\ \A i \in 1..Len(history) :
          history[i].op = "message" /\ history[i].call = last.call
             => history[i].attrs = last.attrs
    /\ last.macro \in WriteMacros
          => /\ "log_init_attr" \notin Elems(last.trace)
             /\ last.attrs = <<>>
             /\ (last.trace # <<>> => last.trace[1] \in {"log_write", "log_printf", "log_dump"})

C10_Witness ==
    /\ last.macro = "LOG_C"
    /\ ~build.LOG_INCLUDE_SOURCE_INFO
    /\ last.trace = <<"log_init_attr", "log_message", "message">>
    /\ last.at = 1
    /\ history[Len(history)].attrs[1].time = 1

(***************************************************************************)
(* Properties of LOG_ENABLED_C (specification SpecEnabled)                 *)
(***************************************************************************)
EnabledAsStated ==
    IF last.level >= build.LOG_COMPILE_TIME_LEVEL
    THEN /\ last.cbs.enabled = NULL => last.result = 1
         /\ last.cbs.enabled # NULL
               => /\ (last.result = 1)
                        <=> (Predicate(last.cbs.enabled, last.level, last.category) # 0)
                  /\ last.trace = <<"log_enabled", "enabled">>
                  /\ EventsOf(last.call) # <<>>
    ELSE /\ last.result = 0
         /\ last.trace = <<>>
         /\ EventsOf(last.call) = <<>>

\* C2 (as stated): for every level, category, floor and registered predicate P,
\* the enabled check returns P(L, C) when L >= floor, true when no predicate is
\* registered and L >= floor, and false without invoking P when L < floor.
C2_EnabledIsPredicateAboveFloor ==
    last.macro = "LOG_ENABLED_C" => (last.result \in {0, 1} /\ EnabledAsStated)

\* C2 (amended): when LOG_DISABLE is not defined the enabled check behaves as
\* stated (its value is the truth value of P(L, C)); when LOG_DISABLE is defined
\* it is the constant 0 for every level and P is never invoked.
C2_EnabledUnlessDisabled ==
    last.macro = "LOG_ENABLED_C"
        => /\ last.result \in {0, 1}
           /\ IF build.LOG_DISABLE
              THEN last.result = 0 /\ last.trace = <<>> /\ EventsOf(last.call) = <<>>
              ELSE EnabledAsStated

C2_Witness ==
    /\ last.macro = "LOG_ENABLED_C"
    /\ ~build.LOG_DISABLE
    /\ build.LOG_COMPILE_TIME_LEVEL = LOG_LEVEL_INFO
    /\ last.level = LOG_LEVEL_INFO
    /\ last.cbs.enabled = "P_net"
    /\ last.category = "net.tcp"
    /\ last.result = 1
    /\ last.trace = <<"log_enabled", "enabled">>

(***************************************************************************)
(* Properties of LOG_THIS_CATEGORY (specification SpecCategory)            *)
(***************************************************************************)
ExpectedCategory(scope) ==
    IF build.scoped[scope] # Undeclared THEN build.scoped[scope]
    ELSE IF scope = "f.block" /\ build.scoped["f"] # Undeclared THEN build.scoped["f"]
    ELSE IF build.source # Undeclared THEN build.source
    ELSE IF build.LOG_MODULE_CATEGORY # Undeclared THEN build.LOG_MODULE_CATEGORY
    ELSE NULL

ResolvedAsStated ==
    /\ last.category = ExpectedCategory(last.scope)
    /\ last.scope = "g" => last.category \notin {ScopedName("f"), ScopedName("f.block")}
    /\ last.scope = "f" => last.category \notin {ScopedName("g"), ScopedName("f.block")}
    /\ last.scope = "f.block" => last.category # ScopedName("g")
    /\ \A i \in 1..Len(EventsOf(last.call)) :
          EventsOf(last.call)[i].category = last.category

\* C3 (as stated): LOG_THIS_CATEGORY() resolves to the scoped category of the
\* enclosing scope if declared, else the source-file category if declared, else
\* the module category if defined, else null; never to a sibling scope's category.
C3_MostSpecificCategory ==
    last.macro \in {"LOG", "log_printf"} => ResolvedAsStated

\* C3 (amended): when LOG_DISABLE is not defined LOG_THIS_CATEGORY() resolves as
\* stated; when LOG_DISABLE is defined it is NULL whatever categories are
\* declared or defined.
C3_MostSpecificUnlessDisabled ==
    last.macro \in {"LOG", "log_printf"}
        => IF build.LOG_DISABLE THEN last.category = NULL ELSE ResolvedAsStated

C3_Witness ==
    /\ last.macro = "log_printf"
    /\ ~build.LOG_DISABLE
    /\ last.scope = "g"
    /\ build.scoped["f"] # Undeclared
    /\ build.scoped["g"] = Undeclared
    /\ build.source = "app.src"
    /\ build.LOG_MODULE_CATEGORY = "app"
    /\ last.category = "app.src"
    /\ history # <<>>
    /\ history[Len(history)].category = "app.src"

(***************************************************************************)
(* Properties of log_set_callbacks (specification SpecConcurrent)          *)
(***************************************************************************)
Consistent(e) ==
    \E r \in Registrations \cup {Unset} :
       /\ r[IF e.op = "message" THEN "msg" ELSE "write"] = e.cb
       /\ r.reserved = e.reserved

====
